---- MODULE Spec2Model ----
(***************************************************************************)
(* ReactiveCascadingDropdown (src/unnamed/part_000): selection state,      *)
(* dependency declarations, derived views and change listeners; the data   *)
(* array utilities (src/ProductDataFilterUtils.tsx), the dependency-field  *)
(* tracker component (src/unnamed/part_001) and the GitLab client's retry  *)
(* (src/gitlab-aad-auth.js).                                               *)
(***************************************************************************)
EXTENDS Integers, Sequences, FiniteSets, TLC

VARIABLES data, dependencies, state, listeners, handles,
          emitted, delivered, nesting, atDelivery, errors, lastCall,
          before, returned, held, util, tracker, http

vars == << data, dependencies, state, listeners, handles,
           emitted, delivered, nesting, atDelivery, errors, lastCall,
           before, returned, held, util, tracker, http >>

\* Bound on the number of onChange registrations made in one behaviour.
MaxRegs == 2

\* The same bound for the callers that only register, unsubscribe and reset.
MaxHandles == 3

\* Bound on the number of times one unsubscribe function is called.
MaxCalls == 2

\* Bound on the number of records of a generated dataset.
MaxColumn == 3

\* Depth of nested resetDependentFields calls at which the JavaScript engine
\* gives up with "RangeError: Maximum call stack size exceeded".
MaxStack == 8

\* Bound on the number of entries of a generated data array.
MaxEntries == 3

\* Bound on the length of the dataArray prop of a render.
MaxProps == 2

\* Cap on the number of times one request is sent.
MaxSends == 3

\* JavaScript null and undefined (a missing property reads as undefined).
NULL == "<null>"
UNDEF == "<undefined>"

\* obj[key] in JavaScript: undefined when the property is missing.
Get(obj, key) == IF key \in DOMAIN obj THEN obj[key] ELSE UNDEF

\* obj[key] = value in JavaScript: creates the property when it is missing.
Put(obj, key, value) ==
  [k \in (DOMAIN obj) \cup {key} |-> IF k = key THEN value ELSE obj[k]]

\* value !== null && value !== undefined
IsSet(value) == value # NULL /\ value # UNDEF

\* array.includes(x)
includes(array, x) == \E i \in DOMAIN array : array[i] = x

\* The test matrix's fixture.
comprehensiveProducts ==
  << [id |-> "1", name |-> "iPhone 14", category |-> "Electronics", subcategory |-> "Smartphones", brand |-> "Apple"],
     [id |-> "2", name |-> "iPhone 13", category |-> "Electronics", subcategory |-> "Smartphones", brand |-> "Apple"],
     [id |-> "3", name |-> "Galaxy S23", category |-> "Electronics", subcategory |-> "Smartphones", brand |-> "Samsung"],
     [id |-> "4", name |-> "Galaxy S22", category |-> "Electronics", subcategory |-> "Smartphones", brand |-> "Samsung"],
     [id |-> "5", name |-> "Pixel 7", category |-> "Electronics", subcategory |-> "Smartphones", brand |-> "Google"],
     [id |-> "6", name |-> "MacBook Pro", category |-> "Electronics", subcategory |-> "Laptops", brand |-> "Apple"],
     [id |-> "7", name |-> "MacBook Air", category |-> "Electronics", subcategory |-> "Laptops", brand |-> "Apple"],
     [id |-> "8", name |-> "Dell XPS 13", category |-> "Electronics", subcategory |-> "Laptops", brand |-> "Dell"],
     [id |-> "9", name |-> "ThinkPad X1", category |-> "Electronics", subcategory |-> "Laptops", brand |-> "Lenovo"],
     [id |-> "10", name |-> "Air Max 90", category |-> "Sports", subcategory |-> "Footwear", brand |-> "Nike"],
     [id |-> "11", name |-> "Stan Smith", category |-> "Sports", subcategory |-> "Footwear", brand |-> "Adidas"],
     [id |-> "12", name |-> "Chuck Taylor", category |-> "Sports", subcategory |-> "Footwear", brand |-> "Converse"],
     [id |-> "13", name |-> "Tennis Racket Pro", category |-> "Sports", subcategory |-> "Equipment", brand |-> "Wilson"],
     [id |-> "14", name |-> "Basketball", category |-> "Sports", subcategory |-> "Equipment", brand |-> "Spalding"],
     [id |-> "15", name |-> "Basic T-Shirt", category |-> "Clothing", subcategory |-> "Casual", brand |-> "H&M"],
     [id |-> "16", name |-> "Denim Jacket", category |-> "Clothing", subcategory |-> "Casual", brand |-> "Levi's"],
     [id |-> "17", name |-> "Hoodie", category |-> "Clothing", subcategory |-> "Casual", brand |-> "Nike"],
     [id |-> "18", name |-> "Business Suit", category |-> "Clothing", subcategory |-> "Formal", brand |-> "Hugo Boss"],
     [id |-> "19", name |-> "Dress Shirt", category |-> "Clothing", subcategory |-> "Formal", brand |-> "Ralph Lauren"] >>

productDependencies ==
  << [field |-> "category", dependsOn |-> << >>],
     [field |-> "subcategory", dependsOn |-> <<"category">>],
     [field |-> "brand", dependsOn |-> <<"category", "subcategory">>],
     [field |-> "name", dependsOn |-> <<"category", "subcategory", "brand">>] >>

\* A second construction: d is reachable from a along two paths (through b
\* and through c) and is not a direct dependent of a; declared out of order.
diamondDependencies ==
  << [field |-> "d", dependsOn |-> <<"b", "c">>],
     [field |-> "b", dependsOn |-> <<"a">>],
     [field |-> "a", dependsOn |-> << >>],
     [field |-> "c", dependsOn |-> <<"a">>] >>

\* Records for the second construction; e is a property no declaration
\* names, one record has d null and one has no d at all.
diamondData ==
  << [a |-> "a1", b |-> "b1", c |-> "c1", d |-> "d1", e |-> "e1"],
     [a |-> "a1", b |-> "b1", c |-> "c2", d |-> "d2", e |-> "e1"],
     [a |-> "a1", b |-> "b2", c |-> "c1", d |-> "d3", e |-> "e2"],
     [a |-> "a2", b |-> "b2", c |-> "c2", d |-> "d1", e |-> "e2"],
     [a |-> "a2", b |-> "b1", c |-> "c1", d |-> NULL, e |-> "e1"],
     [a |-> "a2", b |-> "b2", c |-> "c1", e |-> "e2"] >>

\* A third construction, with a cycle: p and q depend on each other, p also
\* on x, and w on p. The cycle is reached from x, p and q, not from w.
cyclicDependencies ==
  << [field |-> "x", dependsOn |-> << >>],
     [field |-> "p", dependsOn |-> <<"x", "q">>],
     [field |-> "q", dependsOn |-> <<"p">>],
     [field |-> "w", dependsOn |-> <<"p">>] >>

cyclicData ==
  << [x |-> "a1", p |-> "b1", q |-> "c1", w |-> "d1"],
     [x |-> "a1", p |-> "b2", q |-> "c2", w |-> "d2"],
     [x |-> "a2", p |-> "b1", q |-> "c1", w |-> "d1"] >>

\* The constructions explored: (data, dependencies) pairs given to the constructor.
Constructions ==
  { [data |-> comprehensiveProducts, dependencies |-> productDependencies],
    [data |-> diamondData, dependencies |-> diamondDependencies] }

\* Arguments tried for select(field, value): the declared fields, and for the
\* second construction also a property that is not declared (e) and null.
SelectValues ==
  [category |-> {"Electronics", "Sports"},
   subcategory |-> {"Smartphones", "Laptops"},
   brand |-> {"Apple"},
   name |-> {"iPhone 14"},
   a |-> {"a1", "a2", NULL},
   b |-> {"b1", NULL},
   c |-> {"c1", NULL},
   d |-> {"d1"},
   e |-> {"e1"},
   x |-> {"a1"},
   p |-> {"b1"},
   q |-> {"c1", NULL},
   w |-> {"d1"}]

\* What a listener that only looks at its arguments does in reaction: nothing.
NoReaction == [on |-> "", field |-> "", value |-> NULL]

\* The change listeners a caller may register: a well-behaved one and one
\* whose body throws. (drops: the id of the listener whose unsubscribe
\* function the body calls, 0 when it calls none.)
Observers ==
  { [id |-> 1, throws |-> FALSE, reacts |-> NoReaction, drops |-> 0],
    [id |-> 2, throws |-> TRUE, reacts |-> NoReaction, drops |-> 0] }

\* Listeners for the callers that mutate from inside a listener: a passive
\* one, and two whose body calls select(reacts.field, reacts.value) on the
\* same instance when notified about the field reacts.on.
ReentrantObservers ==
  { [id |-> 1, throws |-> FALSE, reacts |-> NoReaction, drops |-> 0],
    [id |-> 3, throws |-> FALSE, drops |-> 0,
     reacts |-> [on |-> "b", field |-> "d", value |-> "d1"]],
    [id |-> 4, throws |-> FALSE, drops |-> 0,
     reacts |-> [on |-> "category", field |-> "subcategory", value |-> "Laptops"]] }

\* Listeners for the callers that unsubscribe from inside a listener: a
\* passive one, one whose body calls its own unsubscribe function, and one
\* whose body calls the unsubscribe function of the passive one.
DroppingObservers ==
  { [id |-> 1, throws |-> FALSE, reacts |-> NoReaction, drops |-> 0],
    [id |-> 5, throws |-> FALSE, reacts |-> NoReaction, drops |-> 5],
    [id |-> 6, throws |-> FALSE, reacts |-> NoReaction, drops |-> 1] }

\* UTF-16 code units of the strings that occur as values.
CodeUnitTable ==
  ("1" :> <<49>>) @@
  ("1-category" :> <<49, 45, 99, 97, 116, 101, 103, 111, 114, 121>>) @@
  ("2-category" :> <<50, 45, 99, 97, 116, 101, 103, 111, 114, 121>>) @@
  ("10" :> <<49, 48>>) @@
  ("11" :> <<49, 49>>) @@
  ("12" :> <<49, 50>>) @@
  ("13" :> <<49, 51>>) @@
  ("14" :> <<49, 52>>) @@
  ("15" :> <<49, 53>>) @@
  ("16" :> <<49, 54>>) @@
  ("17" :> <<49, 55>>) @@
  ("18" :> <<49, 56>>) @@
  ("19" :> <<49, 57>>) @@
  ("2" :> <<50>>) @@
  ("3" :> <<51>>) @@
  ("4" :> <<52>>) @@
  ("5" :> <<53>>) @@
  ("6" :> <<54>>) @@
  ("7" :> <<55>>) @@
  ("8" :> <<56>>) @@
  ("9" :> <<57>>) @@
  ("Adidas" :> <<65, 100, 105, 100, 97, 115>>) @@
  ("Air Max 90" :> <<65, 105, 114, 32, 77, 97, 120, 32, 57, 48>>) @@
  ("Apple" :> <<65, 112, 112, 108, 101>>) @@
  ("Basic T-Shirt" :> <<66, 97, 115, 105, 99, 32, 84, 45, 83, 104, 105, 114, 116>>) @@
  ("Basketball" :> <<66, 97, 115, 107, 101, 116, 98, 97, 108, 108>>) @@
  ("Business Suit" :> <<66, 117, 115, 105, 110, 101, 115, 115, 32, 83, 117, 105, 116>>) @@
  ("Casual" :> <<67, 97, 115, 117, 97, 108>>) @@
  ("Chuck Taylor" :> <<67, 104, 117, 99, 107, 32, 84, 97, 121, 108, 111, 114>>) @@
  ("Clothing" :> <<67, 108, 111, 116, 104, 105, 110, 103>>) @@
  ("Converse" :> <<67, 111, 110, 118, 101, 114, 115, 101>>) @@
  ("Dell" :> <<68, 101, 108, 108>>) @@
  ("Dell XPS 13" :> <<68, 101, 108, 108, 32, 88, 80, 83, 32, 49, 51>>) @@
  ("Denim Jacket" :> <<68, 101, 110, 105, 109, 32, 74, 97, 99, 107, 101, 116>>) @@
  ("Dress Shirt" :> <<68, 114, 101, 115, 115, 32, 83, 104, 105, 114, 116>>) @@
  ("Electronics" :> <<69, 108, 101, 99, 116, 114, 111, 110, 105, 99, 115>>) @@
  ("Equipment" :> <<69, 113, 117, 105, 112, 109, 101, 110, 116>>) @@
  ("Footwear" :> <<70, 111, 111, 116, 119, 101, 97, 114>>) @@
  ("Formal" :> <<70, 111, 114, 109, 97, 108>>) @@
  ("Galaxy S22" :> <<71, 97, 108, 97, 120, 121, 32, 83, 50, 50>>) @@
  ("Galaxy S23" :> <<71, 97, 108, 97, 120, 121, 32, 83, 50, 51>>) @@
  ("Google" :> <<71, 111, 111, 103, 108, 101>>) @@
  ("H&M" :> <<72, 38, 77>>) @@
  ("Hoodie" :> <<72, 111, 111, 100, 105, 101>>) @@
  ("Hugo Boss" :> <<72, 117, 103, 111, 32, 66, 111, 115, 115>>) @@
  ("Laptops" :> <<76, 97, 112, 116, 111, 112, 115>>) @@
  ("Lenovo" :> <<76, 101, 110, 111, 118, 111>>) @@
  ("Levi's" :> <<76, 101, 118, 105, 39, 115>>) @@
  ("MacBook Air" :> <<77, 97, 99, 66, 111, 111, 107, 32, 65, 105, 114>>) @@
  ("MacBook Pro" :> <<77, 97, 99, 66, 111, 111, 107, 32, 80, 114, 111>>) @@
  ("Nike" :> <<78, 105, 107, 101>>) @@
  ("Pixel 7" :> <<80, 105, 120, 101, 108, 32, 55>>) @@
  ("Ralph Lauren" :> <<82, 97, 108, 112, 104, 32, 76, 97, 117, 114, 101, 110>>) @@
  ("Samsung" :> <<83, 97, 109, 115, 117, 110, 103>>) @@
  ("Smartphones" :> <<83, 109, 97, 114, 116, 112, 104, 111, 110, 101, 115>>) @@
  ("Sony" :> <<83, 111, 110, 121>>) @@
  ("Spalding" :> <<83, 112, 97, 108, 100, 105, 110, 103>>) @@
  ("Sports" :> <<83, 112, 111, 114, 116, 115>>) @@
  ("Stan Smith" :> <<83, 116, 97, 110, 32, 83, 109, 105, 116, 104>>) @@
  ("Tablets" :> <<84, 97, 98, 108, 101, 116, 115>>) @@
  ("Tennis Racket Pro" :> <<84, 101, 110, 110, 105, 115, 32, 82, 97, 99, 107, 101, 116, 32, 80, 114, 111>>) @@
  ("ThinkPad X1" :> <<84, 104, 105, 110, 107, 80, 97, 100, 32, 88, 49>>) @@
  ("Wilson" :> <<87, 105, 108, 115, 111, 110>>) @@
  ("a1" :> <<97, 49>>) @@
  ("a2" :> <<97, 50>>) @@
  ("b1" :> <<98, 49>>) @@
  ("b2" :> <<98, 50>>) @@
  ("c1" :> <<99, 49>>) @@
  ("c2" :> <<99, 50>>) @@
  ("d1" :> <<100, 49>>) @@
  ("d2" :> <<100, 50>>) @@
  ("d3" :> <<100, 51>>) @@
  ("e1" :> <<101, 49>>) @@
  ("e2" :> <<101, 50>>) @@
  ("iPhone 13" :> <<105, 80, 104, 111, 110, 101, 32, 49, 51>>) @@
  ("iPhone 14" :> <<105, 80, 104, 111, 110, 101, 32, 49, 52>>)

\* The string a value is compared by in Array.prototype.sort().
CodeUnits(value) == CodeUnitTable[value]

\* Default sort order of Array.prototype.sort(): code-unit order of the strings.
RECURSIVE SeqLess(_, _)
SeqLess(s, t) ==
  IF t = << >> THEN FALSE
  ELSE IF s = << >> THEN TRUE
  ELSE IF Head(s) # Head(t) THEN Head(s) < Head(t)
  ELSE SeqLess(Tail(s), Tail(t))

StrLess(x, y) == SeqLess(CodeUnits(x), CodeUnits(y))

\* Stable insertion of the string x into a sorted sequence.
RECURSIVE insertString(_, _)
insertString(x, sorted) ==
  IF sorted = << >> THEN <<x>>
  ELSE IF StrLess(x, Head(sorted)) THEN <<x>> \o sorted
  ELSE <<Head(sorted)>> \o insertString(x, Tail(sorted))

\* sort() left out: the values stay in first-occurrence order.
sort_none(array) == array

\* array.sort() with the default comparison.
RECURSIVE sort(_)
sort(array) ==
  IF array = << >> THEN << >>
  ELSE insertString(array[Len(array)], sort(SubSeq(array, 1, Len(array) - 1)))

\* Insertion that puts dep before declarations of equal dependsOn.length:
\* a sort that is not stable.
RECURSIVE insertDependency_beforeEqual(_, _)
insertDependency_beforeEqual(dep, sorted) ==
  IF sorted = << >> THEN <<dep>>
  ELSE IF Len(dep.dependsOn) <= Len(Head(sorted).dependsOn) THEN <<dep>> \o sorted
  ELSE <<Head(sorted)>> \o insertDependency_beforeEqual(dep, Tail(sorted))

\* Stable insertion of dep into declarations ordered by dependsOn.length.
RECURSIVE insertDependency(_, _)
insertDependency(dep, sorted) ==
  IF sorted = << >> THEN <<dep>>
  ELSE IF Len(dep.dependsOn) < Len(Head(sorted).dependsOn) THEN <<dep>> \o sorted
  ELSE <<Head(sorted)>> \o insertDependency(dep, Tail(sorted))

\* [...new Set(array)]: first occurrences, in order.
RECURSIVE Distinct(_)
Distinct(array) ==
  IF array = << >> THEN << >>
  ELSE LET front == Distinct(SubSeq(array, 1, Len(array) - 1))
           x == array[Len(array)]
       IN IF includes(front, x) THEN front ELSE Append(front, x)

\* array.map(item => item[field])
MapField(array, field) == [i \in DOMAIN array |-> Get(array[i], field)]

\* deps.sort((a, b) => a.dependsOn.length - b.dependsOn.length), a stable sort.
RECURSIVE sortDependencies(_)
sortDependencies(deps) ==
  IF deps = << >> THEN << >>
  ELSE insertDependency(deps[Len(deps)], sortDependencies(SubSeq(deps, 1, Len(deps) - 1)))

\* The selection state after initializeSelections on the state obj.
initializeSelections(obj, deps) ==
  [k \in (DOMAIN obj) \cup {deps[i].field : i \in DOMAIN deps} |->
     IF \E i \in DOMAIN deps : deps[i].field = k THEN NULL ELSE obj[k]]

\* dependencies.find(d => d.field === field): its index, 0 when there is none.
find(field) ==
  LET hits == {i \in DOMAIN dependencies : dependencies[i].field = field}
  IN IF hits = {} THEN 0 ELSE CHOOSE i \in hits : \A j \in hits : i <= j

\* getOptions without the "parentValue !== null" guard.
getOptions_noNullGuard(st, field) ==
  IF find(field) = 0 THEN << >>
  ELSE LET dependency == dependencies[find(field)]
           passes(item) ==
             \A k \in DOMAIN dependency.dependsOn :
               Get(item, dependency.dependsOn[k]) = Get(st, dependency.dependsOn[k])
           filteredData == SelectSeq(data, passes)
       IN sort(SelectSeq(Distinct(MapField(filteredData, field)), IsSet))

\* getOptions filtering by the first entry of dependsOn only.
getOptions_firstParent(st, field) ==
  IF find(field) = 0 THEN << >>
  ELSE LET dependency == dependencies[find(field)]
           passes(item) ==
             \A k \in DOMAIN dependency.dependsOn :
               LET parentField == dependency.dependsOn[k]
                   parentValue == Get(st, parentField)
               IN (k = 1 /\ IsSet(parentValue)) => Get(item, parentField) = parentValue
           filteredData == SelectSeq(data, passes)
       IN sort(SelectSeq(Distinct(MapField(filteredData, field)), IsSet))

\* getOptions filtering by the field's own selection as well.
getOptions_ownValue(st, field) ==
  IF find(field) = 0 THEN << >>
  ELSE LET dependency == dependencies[find(field)]
           passes(item) ==
             /\ \A k \in DOMAIN dependency.dependsOn :
                  LET parentField == dependency.dependsOn[k]
                      parentValue == Get(st, parentField)
                  IN IsSet(parentValue) => Get(item, parentField) = parentValue
             /\ IsSet(Get(st, field)) => Get(item, field) = Get(st, field)
           filteredData == SelectSeq(data, passes)
       IN sort(SelectSeq(Distinct(MapField(filteredData, field)), IsSet))

getOptions(st, field) ==
  IF find(field) = 0 THEN << >>
  ELSE LET dependency == dependencies[find(field)]
           passes(item) ==
             \A k \in DOMAIN dependency.dependsOn :
               LET parentField == dependency.dependsOn[k]
                   parentValue == Get(st, parentField)
               IN IsSet(parentValue) => Get(item, parentField) = parentValue
           filteredData == SelectSeq(data, passes)
       IN sort(SelectSeq(Distinct(MapField(filteredData, field)), IsSet))

getAllOptions(st) ==
  [f \in {dependencies[i].field : i \in DOMAIN dependencies} |-> getOptions(st, f)]

\* getFilteredData looking only at the declared fields.
getFilteredData_declared(st) ==
  SelectSeq(data, LAMBDA item :
    \A i \in DOMAIN dependencies :
      LET f == dependencies[i].field
      IN (~IsSet(Get(st, f))) \/ Get(item, f) = Get(st, f))

getFilteredData(st) ==
  SelectSeq(data, LAMBDA item :
    \A f \in DOMAIN st : (~IsSet(st[f])) \/ Get(item, f) = st[f])

\* A view with this.state itself as its currentSelections.
viewShares_state == {"currentSelections"}

\* The parts of a view that are objects of the instance itself, which select
\* and reset write in place, instead of objects made for the view: none,
\* { ...this.state } is a copy and reduce() and filter() build new objects.
viewShares == {}

getCurrentState(st) ==
  [currentSelections |-> st,
   availableOptions |-> getAllOptions(st),
   filteredData |-> getFilteredData(st)]

getSelectionSequence ==
  [i \in DOMAIN dependencies |-> dependencies[i].field]

\* canSelect with some() where the code has every().
canSelect_some(st, field) ==
  IF find(field) = 0 THEN FALSE
  ELSE LET dependency == dependencies[find(field)]
       IN \E k \in DOMAIN dependency.dependsOn :
            IsSet(Get(st, dependency.dependsOn[k]))

canSelect(st, field) ==
  IF find(field) = 0 THEN FALSE
  ELSE LET dependency == dependencies[find(field)]
       IN \A k \in DOMAIN dependency.dependsOn :
            IsSet(Get(st, dependency.dependsOn[k]))

\* The engine while one call runs: its fields, what the call has emitted and
\* delivered so far (with the call depth of each delivery and the selection
\* state the instance had when the listener was entered), the
\* console.error count, whether an exception is propagating, the depth of
\* select calls made from inside listeners, the depth of nested
\* resetDependentFields calls, and the value the call returns.
FreshEngine(st, ls) ==
  [state |-> st, listeners |-> ls, emitted |-> << >>,
   delivered |-> << >>, nesting |-> << >>, atDelivery |-> << >>,
   errors |-> 0, thrown |-> FALSE,
   depth |-> 0, stack |-> 0, ret |-> returned]

Engine == FreshEngine(state, listeners)

RECURSIVE select(_, _, _)

\* array.indexOf(x) as a 1-based index, 0 when x is not an element.
indexOf(array, x) ==
  LET hits == {i \in DOMAIN array : array[i] = x}
  IN IF hits = {} THEN 0 ELSE CHOOSE i \in hits : \A j \in hits : i <= j

\* The function onChange returned for listener.
unsubscribe(eng, listener) ==
  LET index == indexOf(eng.listeners, listener)
  IN IF index > 0
     THEN [eng EXCEPT !.listeners =
             SubSeq(@, 1, index - 1) \o SubSeq(@, index + 1, Len(@))]
     ELSE eng

\* The body of a listener: it receives the notification, and then throws,
\* returns, or calls an unsubscribe function or select on the instance and
\* returns.
invoke(eng, listener, field, value, view) ==
  LET got == [eng EXCEPT
                !.delivered = Append(@, [listener |-> listener, field |-> field,
                                         value |-> value, view |-> view]),
                !.nesting = Append(@, eng.depth),
                !.atDelivery = Append(@, eng.state),
                !.thrown = listener.throws]
      target == CHOOSE l \in DroppingObservers : l.id = listener.drops
      dropped == IF listener.drops # 0 /\ ~listener.throws
                 THEN unsubscribe(got, target)
                 ELSE got
  IN IF listener.reacts.on = field /\ ~listener.throws
     THEN [select([dropped EXCEPT !.depth = @ + 1],
                  listener.reacts.field, listener.reacts.value)
             EXCEPT !.depth = eng.depth, !.ret = eng.ret]
     ELSE dropped

\* The listener call without the try/catch.
tryListener_nocatch(eng, listener, field, value, view) ==
  invoke(eng, listener, field, value, view)

\* try { listener(field, value, state) } catch (error) { console.error(...) }
tryListener(eng, listener, field, value, view) ==
  LET r == invoke(eng, listener, field, value, view)
  IN IF r.thrown THEN [r EXCEPT !.thrown = FALSE, !.errors = @ + 1] ELSE r

\* this.listeners.forEach(...), from index i on; an exception ends the loop.
\* forEach visits the indices in order and reads the array as it is when it
\* gets to an index: after a splice the later listeners have moved down.
RECURSIVE forEachListener(_, _, _, _, _)
forEachListener(eng, i, field, value, view) ==
  IF i > Len(eng.listeners) \/ eng.thrown THEN eng
  ELSE forEachListener(tryListener(eng, eng.listeners[i], field, value, view),
                       i + 1, field, value, view)

notifyListeners(eng, field, value, view) ==
  forEachListener(
    [eng EXCEPT !.emitted = Append(@, [field |-> field, value |-> value, view |-> view])],
    1, field, value, view)

\* The declarations whose dependsOn includes changedField, in declaration order.
dependentsOf(changedField) ==
  SelectSeq(dependencies, LAMBDA dep : includes(dep.dependsOn, changedField))

\* The forEach body without the recursive call: direct dependents only.
RECURSIVE resetEach_shallow(_, _, _)
resetEach_shallow(eng, deps, i) ==
  IF i > Len(deps) \/ eng.thrown THEN eng
  ELSE LET dep == deps[i]
           oldValue == Get(eng.state, dep.field)
           cleared == [eng EXCEPT !.state = Put(@, dep.field, NULL)]
           done == IF oldValue = NULL THEN cleared
                   ELSE notifyListeners(cleared, dep.field, NULL,
                                        getCurrentState(cleared.state))
       IN resetEach_shallow(done, deps, i + 1)

\* The forEach body without the "oldValue !== null" test.
RECURSIVE resetEach_always(_, _, _)
resetEach_always(eng, deps, i) ==
  IF i > Len(deps) \/ eng.thrown THEN eng
  ELSE LET dep == deps[i]
           cleared == [eng EXCEPT !.state = Put(@, dep.field, NULL)]
           below == resetEach_always(cleared, dependentsOf(dep.field), 1)
           done == IF below.thrown THEN below
                   ELSE notifyListeners(below, dep.field, NULL,
                                        getCurrentState(below.state))
       IN resetEach_always(done, deps, i + 1)

\* The forEach body notifying about dep.field before it recurses below it.
RECURSIVE resetEach_notifyFirst(_, _, _)
resetEach_notifyFirst(eng, deps, i) ==
  IF i > Len(deps) \/ eng.thrown THEN eng
  ELSE LET dep == deps[i]
           oldValue == Get(eng.state, dep.field)
           cleared == [eng EXCEPT !.state = Put(@, dep.field, NULL)]
           told == IF oldValue = NULL THEN cleared
                   ELSE notifyListeners(cleared, dep.field, NULL,
                                        getCurrentState(cleared.state))
           below == IF told.thrown THEN told
                    ELSE resetEach_notifyFirst(told, dependentsOf(dep.field), 1)
       IN resetEach_notifyFirst(below, deps, i + 1)

\* The forEach body computing the view of its notification before it
\* clears dep.field.
RECURSIVE resetEach_viewFirst(_, _, _)
resetEach_viewFirst(eng, deps, i) ==
  IF i > Len(deps) \/ eng.thrown THEN eng
  ELSE LET dep == deps[i]
           oldValue == Get(eng.state, dep.field)
           view == getCurrentState(eng.state)
           cleared == [eng EXCEPT !.state = Put(@, dep.field, NULL)]
           below == resetEach_viewFirst(cleared, dependentsOf(dep.field), 1)
           done == IF below.thrown \/ oldValue = NULL THEN below
                   ELSE notifyListeners(below, dep.field, NULL, view)
       IN resetEach_viewFirst(done, deps, i + 1)

RECURSIVE resetDependentFields(_, _)
RECURSIVE resetEach(_, _, _)

\* The forEach body recursing only below a dependent that had a value.
RECURSIVE resetEach_skipUnset(_, _, _)
resetEach_skipUnset(eng, deps, i) ==
  IF i > Len(deps) \/ eng.thrown THEN eng
  ELSE LET dep == deps[i]
           oldValue == Get(eng.state, dep.field)
           cleared == [eng EXCEPT !.state = Put(@, dep.field, NULL)]
           below == IF oldValue = NULL THEN cleared
                    ELSE resetDependentFields(cleared, dep.field)
           done == IF below.thrown \/ oldValue = NULL THEN below
                   ELSE notifyListeners(below, dep.field, NULL,
                                        getCurrentState(below.state))
       IN resetEach_skipUnset(done, deps, i + 1)

\* One call of resetDependentFields: a stack frame, which the engine refuses
\* with a RangeError when the stack is full.
resetDependentFields(eng, changedField) ==
  IF eng.stack >= MaxStack THEN [eng EXCEPT !.thrown = TRUE]
  ELSE [resetEach([eng EXCEPT !.stack = @ + 1], dependentsOf(changedField), 1)
          EXCEPT !.stack = eng.stack]

\* The forEach body of resetDependentFields for deps[i], then the rest.
resetEach(eng, deps, i) ==
  IF i > Len(deps) \/ eng.thrown THEN eng
  ELSE LET dep == deps[i]
           oldValue == Get(eng.state, dep.field)
           cleared == [eng EXCEPT !.state = Put(@, dep.field, NULL)]
           below == resetDependentFields(cleared, dep.field)
           done == IF below.thrown \/ oldValue = NULL THEN below
                   ELSE notifyListeners(below, dep.field, NULL,
                                        getCurrentState(below.state))
       IN resetEach(done, deps, i + 1)

\* select assigning only a truthy value: if (value) this.state[field] = value.
select_truthy(eng, field, value) ==
  LET assigned == IF value = NULL THEN eng
                  ELSE [eng EXCEPT !.state = Put(@, field, value)]
      cascaded == resetDependentFields(assigned, field)
      updatedState == getCurrentState(cascaded.state)
      notified == notifyListeners(cascaded, field, value, updatedState)
  IN IF cascaded.thrown THEN cascaded
     ELSE IF notified.thrown THEN notified
     ELSE [notified EXCEPT !.ret = updatedState]

\* select notifying for the selected field before it cascades.
select_notifyFirst(eng, field, value) ==
  LET assigned == [eng EXCEPT !.state = Put(@, field, value)]
      notified == notifyListeners(assigned, field, value, getCurrentState(assigned.state))
      cascaded == resetDependentFields(notified, field)
  IN IF notified.thrown THEN notified
     ELSE IF cascaded.thrown THEN cascaded
     ELSE [cascaded EXCEPT !.ret = getCurrentState(cascaded.state)]

\* select returning the current view untouched when canSelect(field) is false.
select_strict(eng, field, value) ==
  IF ~canSelect(eng.state, field) THEN [eng EXCEPT !.ret = getCurrentState(eng.state)]
  ELSE LET assigned == [eng EXCEPT !.state = Put(@, field, value)]
           cascaded == resetDependentFields(assigned, field)
           updatedState == getCurrentState(cascaded.state)
           notified == notifyListeners(cascaded, field, value, updatedState)
       IN IF cascaded.thrown THEN cascaded
          ELSE IF notified.thrown THEN notified
          ELSE [notified EXCEPT !.ret = updatedState]

\* select with a reentrancy guard: a call made from inside a listener is dropped.
select_guarded(eng, field, value) ==
  IF eng.depth > 0 THEN eng
  ELSE LET assigned == [eng EXCEPT !.state = Put(@, field, value)]
           cascaded == resetDependentFields(assigned, field)
           updatedState == getCurrentState(cascaded.state)
           notified == notifyListeners(cascaded, field, value, updatedState)
       IN IF cascaded.thrown THEN cascaded
          ELSE IF notified.thrown THEN notified
          ELSE [notified EXCEPT !.ret = updatedState]

\* select returning early when the field already has the value.
select_shortCircuit(eng, field, value) ==
  IF Get(eng.state, field) = value THEN [eng EXCEPT !.ret = getCurrentState(eng.state)]
  ELSE LET assigned == [eng EXCEPT !.state = Put(@, field, value)]
           cascaded == resetDependentFields(assigned, field)
           updatedState == getCurrentState(cascaded.state)
           notified == notifyListeners(cascaded, field, value, updatedState)
       IN IF cascaded.thrown THEN cascaded
          ELSE IF notified.thrown THEN notified
          ELSE [notified EXCEPT !.ret = updatedState]

\* select computing the view it delivers before the cascade runs.
select_staleView(eng, field, value) ==
  LET assigned == [eng EXCEPT !.state = Put(@, field, value)]
      updatedState == getCurrentState(assigned.state)
      cascaded == resetDependentFields(assigned, field)
      notified == notifyListeners(cascaded, field, value, updatedState)
  IN IF cascaded.thrown THEN cascaded
     ELSE IF notified.thrown THEN notified
     ELSE [notified EXCEPT !.ret = updatedState]

\* select without the call of resetDependentFields.
select_noCascade(eng, field, value) ==
  LET assigned == [eng EXCEPT !.state = Put(@, field, value)]
      updatedState == getCurrentState(assigned.state)
      notified == notifyListeners(assigned, field, value, updatedState)
  IN IF notified.thrown THEN notified
     ELSE [notified EXCEPT !.ret = updatedState]

select(eng, field, value) ==
  LET assigned == [eng EXCEPT !.state = Put(@, field, value)]
      cascaded == resetDependentFields(assigned, field)
      updatedState == getCurrentState(cascaded.state)
      notified == notifyListeners(cascaded, field, value, updatedState)
  IN IF cascaded.thrown THEN cascaded
     ELSE IF notified.thrown THEN notified
     ELSE [notified EXCEPT !.ret = updatedState]

\* reset done as clearing the first declared field and letting the cascade run.
reset_viaSelect(eng) ==
  select(eng, dependencies[1].field, NULL)

reset(eng) ==
  LET cleared == [eng EXCEPT !.state = initializeSelections(@, dependencies)]
      updatedState == getCurrentState(cleared.state)
      notified == notifyListeners(cleared, "reset", NULL, updatedState)
  IN IF notified.thrown THEN notified
     ELSE [notified EXCEPT !.ret = updatedState]

onChange(eng, listener) ==
  [eng EXCEPT !.listeners = Append(@, listener)]

\* The read accessors of the class.
ReadMethods ==
  {"getCurrentState", "getOptions", "getAllOptions", "getFilteredData",
   "canSelect", "getSelectionSequence"}

\* A read accessor that also tells the listeners what it computed.
read_notifying(eng, method, field) ==
  LET view == getCurrentState(eng.state)
  IN [notifyListeners(eng, method, NULL, view) EXCEPT !.ret = view]

\* One call of a read accessor on the instance: it only computes a return value.
read(eng, method, field) ==
  [eng EXCEPT !.ret =
     CASE method = "getCurrentState" -> getCurrentState(eng.state)
       [] method = "getOptions" -> getOptions(eng.state, field)
       [] method = "getAllOptions" -> getAllOptions(eng.state)
       [] method = "getFilteredData" -> getFilteredData(eng.state)
       [] method = "canSelect" -> canSelect(eng.state, field)
       [] method = "getSelectionSequence" -> getSelectionSequence]

\* The properties the records have.
Properties == UNION {DOMAIN data[i] : i \in DOMAIN data}

DeclaredFields == {dependencies[i].field : i \in DOMAIN dependencies}

\* No call of a data array utility was made.
NoUtil == [op |-> "none"]

\* No tracker component is mounted.
NoTracker == [mounted |-> FALSE]

\* No GitLabService exists.
NoHttp == [phase |-> "none"]

\* What one finished call leaves behind.
Finish(op, field, value, eng) ==
  /\ state' = eng.state
  /\ listeners' = eng.listeners
  /\ emitted' = eng.emitted
  /\ delivered' = eng.delivered
  /\ nesting' = eng.nesting
  /\ atDelivery' = eng.atDelivery
  /\ errors' = eng.errors
  /\ returned' = eng.ret
  /\ before' = state
  /\ lastCall' = [op |-> op, field |-> field, value |-> value, threw |-> eng.thrown]
  /\ UNCHANGED << data, dependencies, held, util, tracker, http >>

Init ==
  \E c \in Constructions :
    /\ data = c.data
    /\ dependencies = sortDependencies(c.dependencies)
    /\ state = initializeSelections(<< >>, sortDependencies(c.dependencies))
    /\ listeners = << >>
    /\ handles = << >>
    /\ emitted = << >>
    /\ delivered = << >>
    /\ nesting = << >>
    /\ atDelivery = << >>
    /\ held = << >>
    /\ errors = 0
    /\ lastCall = [op |-> "new", field |-> "", value |-> NULL, threw |-> FALSE]
    /\ before = initializeSelections(<< >>, sortDependencies(c.dependencies))
    /\ returned = [currentSelections |-> << >>, availableOptions |-> << >>,
                   filteredData |-> << >>]
    /\ util = NoUtil /\ tracker = NoTracker /\ http = NoHttp

Select ==
  \E field \in Properties \cap DOMAIN SelectValues :
    \E value \in SelectValues[field] :
      /\ Finish("select", field, value, select(Engine, field, value))
      /\ UNCHANGED handles

Reset ==
  /\ Finish("reset", "", NULL, reset(Engine))
  /\ UNCHANGED handles

OnChange ==
  \E listener \in Observers :
    /\ Len(handles) < MaxRegs
    /\ Finish("onChange", "", NULL, onChange(Engine, listener))
    /\ handles' = Append(handles, [listener |-> listener, calls |-> 0])

\* The first call of an unsubscribe function.
Unsubscribe ==
  \E h \in DOMAIN handles :
    /\ handles[h].calls = 0
    /\ Finish("unsubscribe", "", NULL, unsubscribe(Engine, handles[h].listener))
    /\ handles' = [handles EXCEPT ![h].calls = @ + 1]

\* onChange for a caller that registers up to MaxHandles listeners.
OnChangeMany ==
  \E listener \in Observers :
    /\ Len(handles) < MaxHandles
    /\ Finish("onChange", "", NULL, onChange(Engine, listener))
    /\ handles' = Append(handles, [listener |-> listener, calls |-> 0])

\* onChange for a caller whose listeners never throw.
OnChangePassive ==
  \E listener \in {l \in Observers : ~l.throws} :
    /\ Len(handles) < MaxRegs
    /\ Finish("onChange", "", NULL, onChange(Engine, listener))
    /\ handles' = Append(handles, [listener |-> listener, calls |-> 0])

\* onChange for a caller whose listeners may call select themselves.
OnChangeReentrant ==
  \E listener \in ReentrantObservers :
    /\ Len(handles) < MaxRegs
    /\ Finish("onChange", "", NULL, onChange(Engine, listener))
    /\ handles' = Append(handles, [listener |-> listener, calls |-> 0])

\* A further call of an unsubscribe function that was called before.
UnsubscribeAgain ==
  \E h \in DOMAIN handles :
    /\ handles[h].calls > 0 /\ handles[h].calls < MaxCalls
    /\ Finish("unsubscribe", "", NULL, unsubscribe(Engine, handles[h].listener))
    /\ handles' = [handles EXCEPT ![h].calls = @ + 1]

\* A caller reads: an accessor without argument, or getOptions / canSelect
\* for a property of the records or for a name nothing has.
Read ==
  \/ \E method \in ReadMethods \ {"getOptions", "canSelect"} :
       /\ Finish(method, "", NULL, read(Engine, method, ""))
       /\ UNCHANGED handles
  \/ \E method \in {"getOptions", "canSelect"} :
       \E field \in Properties \cup {"nosuch"} :
         /\ Finish(method, field, NULL, read(Engine, method, field))
         /\ UNCHANGED handles

Next == Select \/ Reset \/ OnChange \/ Unsubscribe

Spec == Init /\ [][Next]_vars

\* The engine with callers that register, select, reset and read.
NextReads == Select \/ Reset \/ OnChangePassive \/ Read

SpecReads == Init /\ [][NextReads]_vars

\* The engine with callers that register, unsubscribe (repeatedly) and reset.
NextRegs == OnChangeMany \/ Unsubscribe \/ UnsubscribeAgain \/ Reset

SpecRegs == Init /\ [][NextRegs]_vars

\* The engine with listeners that call select while they are notified.
NextReentrant == Select \/ Reset \/ OnChangeReentrant

SpecReentrant == Init /\ [][NextReentrant]_vars

\* The instance the constructor leaves for the arguments c.data, c.dependencies.
ConstructEngine(c) ==
  /\ data = c.data
  /\ dependencies = sortDependencies(c.dependencies)
  /\ state = initializeSelections(<< >>, sortDependencies(c.dependencies))
  /\ listeners = << >>
  /\ handles = << >>
  /\ emitted = << >>
  /\ delivered = << >>
  /\ nesting = << >>
  /\ atDelivery = << >>
  /\ held = << >>
  /\ errors = 0
  /\ lastCall = [op |-> "new", field |-> "", value |-> NULL, threw |-> FALSE]
  /\ before = initializeSelections(<< >>, sortDependencies(c.dependencies))
  /\ returned = [currentSelections |-> << >>, availableOptions |-> << >>,
                 filteredData |-> << >>]

\* The same in a program that uses nothing but the instance.
Construct(c) ==
  ConstructEngine(c) /\ util = NoUtil /\ tracker = NoTracker /\ http = NoHttp

\* Datasets with a number property and a string property (FieldValue is
\* string | number | null). A number is written by its decimal digits: that
\* is the string sort() compares it by, and CodeUnits gives its code units.
NumberValues == {"2", "9", "10"}

StringValues == {"Apple", "Dell"}

SortRecords == [size : NumberValues, label : StringValues]

\* The sequences over S of length 1 to n.
RECURSIVE SeqsUpTo(_, _)
SeqsUpTo(S, n) ==
  IF n = 0 THEN {}
  ELSE LET shorter == SeqsUpTo(S, n - 1)
       IN {<<x>> : x \in S} \cup shorter \cup
          {Append(q, x) : q \in {r \in shorter : Len(r) = n - 1}, x \in S}

sortDependencyConfig ==
  << [field |-> "size", dependsOn |-> << >>],
     [field |-> "label", dependsOn |-> << >>] >>

\* Construction on every dataset of up to MaxColumn such records.
InitSort ==
  \E records \in SeqsUpTo(SortRecords, MaxColumn) :
    Construct([data |-> records, dependencies |-> sortDependencyConfig])

\* The engine on the generated datasets, with a caller that reads.
NextSort == Read

SpecSort == InitSort /\ [][NextSort]_vars

\* Constructions for callers that may declare a dependency cycle.
CyclicConstructions ==
  { [data |-> cyclicData, dependencies |-> cyclicDependencies],
    [data |-> diamondData, dependencies |-> diamondDependencies] }

InitCyclic == \E c \in CyclicConstructions : Construct(c)

\* The engine with declarations that may be cyclic.
NextCyclic == Select \/ Reset \/ OnChangePassive

SpecCyclic == InitCyclic /\ [][NextCyclic]_vars

\* onChange for a caller whose listeners may call unsubscribe functions.
OnChangeDropping ==
  \E listener \in DroppingObservers :
    /\ Len(handles) < MaxHandles
    /\ Finish("onChange", "", NULL, onChange(Engine, listener))
    /\ handles' = Append(handles, [listener |-> listener, calls |-> 0])

\* The engine with listeners that unsubscribe while they are notified by reset.
NextDropping == Reset \/ OnChangeDropping

SpecDropping == Init /\ [][NextDropping]_vars

\* The construction of the test matrix.
InitProduct ==
  Construct([data |-> comprehensiveProducts, dependencies |-> productDependencies])

\* select as a guarded caller makes it: only for a declared field with
\* canSelect(field) true and only with one of getOptions(field).
SelectGuarded ==
  \E field \in {dependencies[i].field : i \in DOMAIN dependencies} :
    /\ canSelect(state, field)
    /\ \E i \in DOMAIN getOptions(state, field) :
         /\ Finish("select", field, getOptions(state, field)[i],
                   select(Engine, field, getOptions(state, field)[i]))
         /\ UNCHANGED handles

\* The engine on the product fixture with a caller that guards its selects.
NextGuarded == SelectGuarded \/ Reset

SpecGuarded == InitProduct /\ [][NextGuarded]_vars

\* What a caller reads from a view it got earlier: the parts made for the
\* view as they were, a part that is an object of the instance as it is now.
readView(view) ==
  [currentSelections |-> IF "currentSelections" \in viewShares
                         THEN state ELSE view.currentSelections,
   availableOptions |-> view.availableOptions,
   filteredData |-> view.filteredData]

\* The views of the last call: the one it returned and the ones it delivered.
ViewsOfLastCall ==
  {delivered[k].view : k \in DOMAIN delivered} \cup
  (IF lastCall.op \in {"select", "reset", "getCurrentState"} /\ ~lastCall.threw
   THEN {returned} ELSE {})

\* A caller or a listener keeps a view of the last call (held records it as
\* it was then).
Keep ==
  /\ held = << >>
  /\ \E view \in ViewsOfLastCall : held' = << view >>
  /\ UNCHANGED << data, dependencies, state, listeners, handles, emitted,
                  delivered, nesting, atDelivery, errors, lastCall, before,
                  returned, util, tracker, http >>

\* onChange for a caller that registers one listener, before anything else.
OnChangeOnce ==
  \E listener \in {l \in Observers : ~l.throws} :
    /\ handles = << >> /\ lastCall.op = "new"
    /\ Finish("onChange", "", NULL, onChange(Engine, listener))
    /\ handles' = Append(handles, [listener |-> listener, calls |-> 0])

\* The engine with a caller and a listener that keep a view and go on.
NextSnapshot == Select \/ Reset \/ OnChangeOnce \/ Keep

SpecSnapshot == InitProduct /\ [][NextSnapshot]_vars

----------------------------------------------------------------------------
\* The data array utilities of src/ProductDataFilterUtils.tsx.

DEPENDENCY_FIELDS == << "category", "subcategory", "product" >>

\* The sample catalogue.
productData ==
  << [category |-> "Electronics", subcategory |-> "Mobile Phones", product |-> "iPhone 15 Pro"],
     [category |-> "Electronics", subcategory |-> "Mobile Phones", product |-> "Samsung Galaxy S24"],
     [category |-> "Electronics", subcategory |-> "Mobile Phones", product |-> "Google Pixel 8"],
     [category |-> "Electronics", subcategory |-> "Laptops", product |-> "MacBook Air M2"],
     [category |-> "Electronics", subcategory |-> "Laptops", product |-> "Dell XPS 13"],
     [category |-> "Electronics", subcategory |-> "Laptops", product |-> "HP Spectre x360"],
     [category |-> "Electronics", subcategory |-> "Headphones", product |-> "Sony WH-1000XM5"],
     [category |-> "Electronics", subcategory |-> "Headphones", product |-> "Apple AirPods Pro"],
     [category |-> "Clothing", subcategory |-> "Men's Wear", product |-> "Cotton T-Shirt"],
     [category |-> "Clothing", subcategory |-> "Men's Wear", product |-> "Denim Jeans"],
     [category |-> "Clothing", subcategory |-> "Women's Wear", product |-> "Summer Dress"],
     [category |-> "Clothing", subcategory |-> "Women's Wear", product |-> "Blouse"],
     [category |-> "Home & Garden", subcategory |-> "Kitchen Appliances", product |-> "Coffee Maker"],
     [category |-> "Home & Garden", subcategory |-> "Kitchen Appliances", product |-> "Blender"],
     [category |-> "Home & Garden", subcategory |-> "Furniture", product |-> "Dining Table"],
     [category |-> "Home & Garden", subcategory |-> "Furniture", product |-> "Sofa Set"] >>

\* A value that passes "if (value)".
Truthy(value) == IsSet(value) /\ value # ""

isValidField(fieldName, dependencyFields) == includes(dependencyFields, fieldName)

\* dependencyFields.indexOf(fieldName): 0-based, -1 when it is not there.
getFieldHierarchyLevel(fieldName, dependencyFields) ==
  indexOf(dependencyFields, fieldName) - 1

\* The indices of the entries of dataArray with this primaryKey and property.
entriesOf(dataArray, id, property) ==
  {i \in DOMAIN dataArray :
     dataArray[i].primaryKey = id /\ dataArray[i].property = property}

\* _.find(dataArray, { primaryKey: id, property }): the first such entry,
\* as an index, 0 when there is none.
findEntry(dataArray, id, property) ==
  LET hits == entriesOf(dataArray, id, property)
  IN IF hits = {} THEN 0 ELSE CHOOSE i \in hits : \A j \in hits : i <= j

\* currentSelections[property] after the forEach over id's entries: the
\* valueLabel of the last such entry, undefined when there is none.
currentSelection(dataArray, id, property) ==
  LET hits == entriesOf(dataArray, id, property)
  IN IF hits = {} THEN UNDEF
     ELSE dataArray[CHOOSE i \in hits : \A j \in hits : i >= j].valueLabel

\* The criteria "if (currentSelections[fieldName])" adds for fields, in order.
selectedCriteria(dataArray, id, fields) ==
  SelectSeq([i \in DOMAIN fields |->
               [field |-> fields[i],
                value |-> currentSelection(dataArray, id, fields[i])]],
            LAMBDA c : Truthy(c.value))

\* Step 3 with every dependency field as a criterion, whatever the level of
\* the changed field.
filterCriteria_allLevels(id, changedField, dataArray, dependencyFields) ==
  IF isValidField(changedField, dependencyFields)
  THEN selectedCriteria(dataArray, id, dependencyFields)
  ELSE << [field |-> changedField,
           value |-> dataArray[findEntry(dataArray, id, changedField)].valueLabel] >>
       \o selectedCriteria(dataArray, id, dependencyFields)

\* Step 3: the entries of filterCriteria, in insertion order.
filterCriteria(id, changedField, dataArray, dependencyFields) ==
  IF isValidField(changedField, dependencyFields)
  THEN selectedCriteria(dataArray, id,
         SubSeq(dependencyFields, 1,
                getFieldHierarchyLevel(changedField, dependencyFields) + 1))
  ELSE << [field |-> changedField,
           value |-> dataArray[findEntry(dataArray, id, changedField)].valueLabel] >>
       \o selectedCriteria(dataArray, id, dependencyFields)

\* Step 4: Object.entries(filterCriteria).forEach(...) on filteredData.
RECURSIVE applyCriteria(_, _)
applyCriteria(filteredData, criteria) ==
  IF criteria = << >> THEN filteredData
  ELSE LET c == Head(criteria)
           hasField == \E i \in DOMAIN filteredData : c.field \in DOMAIN filteredData[i]
           narrowed == IF Truthy(c.value) /\ Len(filteredData) > 0 /\ hasField
                       THEN SelectSeq(filteredData, LAMBDA item : Get(item, c.field) = c.value)
                       ELSE filteredData
       IN applyCriteria(narrowed, Tail(criteria))

\* Step 5: the unique values of each dependency field (String(value) of a
\* string is the string).
uniqueValues(sourceData, filteredData, dependencyFields) ==
  [fieldName \in {dependencyFields[i] : i \in DOMAIN dependencyFields} |->
     IF Len(sourceData) > 0 /\ \E i \in DOMAIN sourceData : fieldName \in DOMAIN sourceData[i]
     THEN Distinct(SelectSeq(MapField(filteredData, fieldName), IsSet))
     ELSE << >>]

filterDataWithDependencies(id, changedField, dataArray, sourceData, dependencyFields) ==
  IF findEntry(dataArray, id, changedField) = 0
  THEN [fieldName \in {dependencyFields[i] : i \in DOMAIN dependencyFields} |-> << >>]
  ELSE uniqueValues(sourceData,
         applyCriteria(sourceData,
           filterCriteria(id, changedField, dataArray, dependencyFields)),
         dependencyFields)

\* The filter keeping only the entries strictly before the changed field.
resetDependentEntries_strict(id, changedField, dataArray, dependencyFields) ==
  IF ~isValidField(changedField, dependencyFields) THEN dataArray
  ELSE SelectSeq(dataArray, LAMBDA item :
         \/ item.primaryKey # id
         \/ ~isValidField(item.property, dependencyFields)
         \/ getFieldHierarchyLevel(item.property, dependencyFields)
              < getFieldHierarchyLevel(changedField, dependencyFields))

\* resetDependentFields of ProductDataFilterUtils.tsx (the class has a
\* method of the same name).
resetDependentEntries(id, changedField, dataArray, dependencyFields) ==
  IF ~isValidField(changedField, dependencyFields) THEN dataArray
  ELSE SelectSeq(dataArray, LAMBDA item :
         \/ item.primaryKey # id
         \/ ~isValidField(item.property, dependencyFields)
         \/ getFieldHierarchyLevel(item.property, dependencyFields)
              <= getFieldHierarchyLevel(changedField, dependencyFields))

\* The entries the generated data arrays are made of.
UtilEntries ==
  [primaryKey : {1}, property : {"category"}, valueLabel : {"Electronics", "Clothing", ""}]
  \cup [primaryKey : {1}, property : {"subcategory"}, valueLabel : {"Laptops"}]
  \cup [primaryKey : {1, 2}, property : {"product"}, valueLabel : {"MacBook Air M2"}]
  \cup [primaryKey : {1}, property : {"type"}, valueLabel : {"sale"}]

\* The arguments tried for id and changedField: 3 has no entry, country is
\* a property no entry has.
UtilIds == {1, 2, 3}

UtilFields == {"category", "subcategory", "product", "type", "country"}

\* The variables of the ReactiveCascadingDropdown instance.
engineVars ==
  << data, dependencies, state, listeners, handles, emitted, delivered,
     nesting, atDelivery, errors, lastCall, before, returned, held >>

\* A program that holds a data array of up to MaxEntries entries.
InitUtil ==
  /\ ConstructEngine([data |-> comprehensiveProducts, dependencies |-> productDependencies])
  /\ \E dataArray \in {<< >>} \cup SeqsUpTo(UtilEntries, MaxEntries) :
       util = [op |-> "new", id |-> 0, changedField |-> "",
               dataArray |-> dataArray, result |-> << >>]
  /\ tracker = NoTracker
  /\ http = NoHttp

FilterData ==
  \E id \in UtilIds, changedField \in UtilFields :
    /\ util' = [op |-> "filterDataWithDependencies", id |-> id,
                changedField |-> changedField, dataArray |-> util.dataArray,
                result |-> filterDataWithDependencies(id, changedField,
                             util.dataArray, productData, DEPENDENCY_FIELDS)]
    /\ UNCHANGED << engineVars, tracker, http >>

ResetDependent ==
  \E id \in UtilIds, changedField \in UtilFields :
    /\ util' = [op |-> "resetDependentFields", id |-> id,
                changedField |-> changedField, dataArray |-> util.dataArray,
                result |-> resetDependentEntries(id, changedField,
                             util.dataArray, DEPENDENCY_FIELDS)]
    /\ UNCHANGED << engineVars, tracker, http >>

NextUtil == FilterData \/ ResetDependent

SpecUtil == InitUtil /\ [][NextUtil]_vars

----------------------------------------------------------------------------
\* The dependency fields tracker component of src/unnamed/part_001.

dependency_fields == << "category", "subcategory", "product" >>

\* relevantData[key] = value on an object kept as its entries in insertion
\* order: an existing key keeps its place.
setEntry(obj, key, value) ==
  IF \E i \in DOMAIN obj : obj[i].key = key
  THEN [i \in DOMAIN obj |-> IF obj[i].key = key THEN [key |-> key, value |-> value] ELSE obj[i]]
  ELSE Append(obj, [key |-> key, value |-> value])

\* The forEach that fills relevantData.
RECURSIVE addRelevant(_, _)
addRelevant(relevantData, items) ==
  IF items = << >> THEN relevantData
  ELSE LET item == Head(items)
       IN addRelevant(setEntry(relevantData,
                               ToString(item.primaryKey) \o "-" \o item.property,
                               [primaryKey |-> item.primaryKey,
                                property |-> item.property,
                                valueLabel |-> item.valueLabel]),
                      Tail(items))

\* The memoized currentRelevantData of a render with this props.dataArray.
currentRelevantData(dataArray) ==
  addRelevant(<< >>, SelectSeq(dataArray, LAMBDA item : includes(dependency_fields, item.property)))

\* Object.keys(obj)
ObjectKeys(obj) == [i \in DOMAIN obj |-> obj[i].key]

\* The texts joined with commas.
RECURSIVE join(_)
join(texts) ==
  IF texts = << >> THEN ""
  ELSE IF Len(texts) = 1 THEN texts[1]
  ELSE texts[1] \o "," \o join(Tail(texts))

\* JSON text of a member of the inner objects.
memberText(value, name) ==
  "\"" \o name \o "\":" \o
  (IF name = "primaryKey" THEN ToString(value[name]) ELSE "\"" \o value[name] \o "\"")

\* JSON.stringify of an inner object { primaryKey, property, valueLabel }
\* under an array replacer: only the properties named in the array are
\* written, in the array's order.
stringifyInner(value, propertyList) ==
  "{" \o join([i \in 1..Len(SelectSeq(propertyList, LAMBDA name : name \in DOMAIN value)) |->
                 memberText(value, SelectSeq(propertyList, LAMBDA name : name \in DOMAIN value)[i])])
      \o "}"

\* JSON.stringify(obj, propertyList): the array replacer is the property
\* list of the object and of every object nested in it.
stringify(obj, propertyList) ==
  LET written == SelectSeq(Distinct(propertyList),
                           LAMBDA name : \E i \in DOMAIN obj : obj[i].key = name)
      valueOf(name) == obj[CHOOSE i \in DOMAIN obj : obj[i].key = name].value
  IN "{" \o join([i \in DOMAIN written |->
                    "\"" \o written[i] \o "\":" \o stringifyInner(valueOf(written[i]), propertyList)])
         \o "}"

\* JSON.stringify(data, Object.keys(data).sort())
currentRelevantDataString(relevantData) ==
  stringify(relevantData, sort(ObjectKeys(relevantData)))

\* The entries the dataArray props are made of.
TrackerEntries ==
  [primaryKey : {1}, property : {"category"}, valueLabel : {"Electronics", "Clothing"}]
  \cup [primaryKey : {2}, property : {"category"}, valueLabel : {"Electronics"}]
  \cup [primaryKey : {1}, property : {"type"}, valueLabel : {"sale"}]

TrackerProps == {<< >>} \cup SeqsUpTo(TrackerEntries, MaxProps)

\* The first render and its effect: previousRelevantDataRef.current is null,
\* the effect stores the relevant data and returns.
Mount ==
  \E dataArray \in TrackerProps :
    /\ ~tracker.mounted
    /\ tracker' = [mounted |-> TRUE, dataArray |-> dataArray, rendered |-> << >>,
                   previousRelevantDataRef |-> << currentRelevantData(dataArray) >>,
                   invoked |-> FALSE]
    /\ UNCHANGED << engineVars, util, http >>

\* A render with a new props.dataArray: both memos are computed anew, the
\* effect runs, compares the two texts and stores the relevant data.
Rerender ==
  \E dataArray \in TrackerProps :
    /\ tracker.mounted
    /\ LET previousData == tracker.previousRelevantDataRef[1]
           previousDataString == stringify(previousData, sort(ObjectKeys(previousData)))
       IN tracker' = [mounted |-> TRUE, dataArray |-> dataArray,
                      rendered |-> << tracker.dataArray >>,
                      previousRelevantDataRef |-> << currentRelevantData(dataArray) >>,
                      invoked |-> currentRelevantDataString(currentRelevantData(dataArray))
                                    # previousDataString]
    /\ UNCHANGED << engineVars, util, http >>

\* A render with the same props.dataArray object: the memos keep their
\* values and the effect does not run.
RerenderSame ==
  /\ tracker.mounted
  /\ tracker' = [tracker EXCEPT !.rendered = << tracker.dataArray >>, !.invoked = FALSE]
  /\ UNCHANGED << engineVars, util, http >>

InitTracker ==
  /\ ConstructEngine([data |-> comprehensiveProducts, dependencies |-> productDependencies])
  /\ util = NoUtil
  /\ tracker = NoTracker
  /\ http = NoHttp

NextTracker == Mount \/ Rerender \/ RerenderSame

SpecTracker == InitTracker /\ [][NextTracker]_vars

----------------------------------------------------------------------------
\* The retry of the GitLab client of src/gitlab-aad-auth.js.

\* gitlabConfig.retries, and other values it may be configured to.
RetriesValues == {0, 1, 3, 5}

\* What an attempt can end with: a response (status 2xx) or an axios error,
\* whose response is absent (<< >>) when none was received.
Responses == { [response |-> << [status |-> 200] >>, code |-> UNDEF] }

HttpErrors ==
  { [response |-> << [status |-> 401] >>, code |-> "ERR_BAD_REQUEST"],
    [response |-> << [status |-> 403] >>, code |-> "ERR_BAD_REQUEST"],
    [response |-> << [status |-> 404] >>, code |-> "ERR_BAD_REQUEST"],
    [response |-> << [status |-> 429] >>, code |-> "ERR_BAD_REQUEST"],
    [response |-> << [status |-> 500] >>, code |-> "ERR_BAD_RESPONSE"],
    [response |-> << [status |-> 503] >>, code |-> "ERR_BAD_RESPONSE"],
    [response |-> << >>, code |-> "ECONNABORTED"],
    [response |-> << >>, code |-> "ENOTFOUND"],
    [response |-> << >>, code |-> "ERR_NETWORK"] }

\* new Error('GitLab authentication failed')
AuthenticationError ==
  [response |-> << >>, code |-> UNDEF, message |-> "GitLab authentication failed"]

shouldRetry(error) ==
  \/ error.response = << >>
  \/ error.response[1].status >= 500
  \/ error.code = "ECONNABORTED"
  \/ error.code = "ENOTFOUND"

\* The error handler without the test of originalRequest._retry.
responseError_always(error, originalRequest) ==
  IF error.response # << >> /\ error.response[1].status = 401
  THEN [does |-> "throw", error |-> AuthenticationError]
  ELSE IF shouldRetry(error)
  THEN [does |-> "retry", error |-> error]
  ELSE [does |-> "reject", error |-> error]

\* The error handler of the response interceptor, up to its await.
responseError(error, originalRequest) ==
  IF error.response # << >> /\ error.response[1].status = 401
  THEN [does |-> "throw", error |-> AuthenticationError]
  ELSE IF ~originalRequest._retry /\ shouldRetry(error)
  THEN [does |-> "retry", error |-> error]
  ELSE [does |-> "reject", error |-> error]

\* A service constructed with some retries value; no request made yet.
InitHttp ==
  /\ ConstructEngine([data |-> comprehensiveProducts, dependencies |-> productDependencies])
  /\ util = NoUtil
  /\ tracker = NoTracker
  /\ \E retries \in RetriesValues :
       http = [phase |-> "idle", retries |-> retries, attempts |-> 0, delays |-> 0,
               originalRequest |-> [_retry |-> FALSE], outcomes |-> << >>,
               settled |-> << >>]

\* this.api.get(...): a new request config, sent for the first time.
Request ==
  /\ http.phase \in {"idle", "settled"}
  /\ http' = [phase |-> "sent", retries |-> http.retries, attempts |-> 1, delays |-> 0,
              originalRequest |-> [_retry |-> FALSE], outcomes |-> << >>,
              settled |-> << >>]
  /\ UNCHANGED << engineVars, util, tracker >>

\* The attempt in flight ends with a response.
Respond ==
  \E response \in Responses :
    /\ http.phase = "sent"
    /\ http' = [http EXCEPT !.phase = "settled",
                            !.outcomes = Append(@, response),
                            !.settled = << [kind |-> "fulfilled", value |-> response] >>]
    /\ UNCHANGED << engineVars, util, tracker >>

\* The attempt in flight fails: the error handler runs up to its await or
\* to its end.
Fail ==
  \E error \in HttpErrors :
    /\ http.phase = "sent"
    /\ LET handled == responseError(error, http.originalRequest)
       IN http' =
            IF handled.does = "retry"
            THEN [http EXCEPT !.phase = "delay",
                              !.outcomes = Append(@, error),
                              !.originalRequest = [_retry |-> TRUE]]
            ELSE [http EXCEPT !.phase = "settled",
                              !.outcomes = Append(@, error),
                              !.settled = << [kind |-> "rejected", value |-> handled.error] >>]
    /\ UNCHANGED << engineVars, util, tracker >>

\* The timer of delay(1000) fires: the handler sends originalRequest again.
DelayElapsed ==
  /\ http.phase = "delay"
  /\ http.attempts < MaxSends
  /\ http' = [http EXCEPT !.phase = "sent", !.attempts = @ + 1, !.delays = @ + 1]
  /\ UNCHANGED << engineVars, util, tracker >>

NextHttp == Request \/ Respond \/ Fail \/ DelayElapsed

SpecHttp == InitHttp /\ [][NextHttp]_vars

----------------------------------------------------------------------------
\* Vocabulary of the properties.

\* D names X in its dependsOn.
DependsOn(D, X) ==
  \E i \in DOMAIN dependencies :
    dependencies[i].field = D /\ includes(dependencies[i].dependsOn, X)

RECURSIVE DependentsClosure(_)
DependentsClosure(S) ==
  LET more == S \cup {D \in DeclaredFields : \E x \in S : DependsOn(D, x)}
  IN IF more = S THEN S ELSE DependentsClosure(more)

\* The fields that depend on X directly or transitively.
Descendants(X) == DependentsClosure({D \in DeclaredFields : DependsOn(D, X)})

\* The last call was a select that returned.
Selected == lastCall.op = "select" /\ ~lastCall.threw

\* The reset notifications of the last select: everything emitted before the final one.
ResetEvents == {i \in DOMAIN emitted : i < Len(emitted)}

\* How many times listener is registered.
Registrations(listener) == Cardinality({j \in DOMAIN listeners : listeners[j] = listener})

\* The distinct non-null values of field F over a sequence of records.
ValuesOf(records, F) == {Get(records[i], F) : i \in DOMAIN records} \ {NULL, UNDEF}

ElementsOf(array) == {array[i] : i \in DOMAIN array}

\* C1: after select(X, v) returns, every field that depends on X directly or
\* transitively is unset.
C1_CascadeComplete ==
  Selected => \A D \in Descendants(lastCall.field) : Get(state, D) = NULL

\* A select of a whose cascade cleared d, which depends on a only through b and c.
C1_Witness ==
  /\ Selected /\ lastCall.field = "a"
  /\ IsSet(Get(before, "d")) /\ Get(state, "d") = NULL

\* C2: select(F, v) followed by getCurrentState().currentSelections[F] yields
\* v, for null too, and so does the view select returned.
C2_RoundTrip ==
  Selected =>
    /\ Get(getCurrentState(state).currentSelections, lastCall.field) = lastCall.value
    /\ Get(returned.currentSelections, lastCall.field) = lastCall.value

\* A select that cleared a field which was set.
C2_Witness ==
  /\ Selected /\ lastCall.value = NULL
  /\ IsSet(Get(before, lastCall.field))

\* C3: a record is returned by getFilteredData() exactly when it equals the
\* current selection at every field whose selection is set.
C3_FilteredDataConsistent ==
  LET result == getFilteredData(state)
      matches(item) == \A f \in DOMAIN state : IsSet(state[f]) => Get(item, f) = state[f]
  IN /\ \A j \in DOMAIN result : matches(result[j])
     /\ \A i \in DOMAIN data :
          (~\E j \in DOMAIN result : result[j] = data[i]) =>
             \E f \in DOMAIN state : IsSet(state[f]) /\ Get(data[i], f) # state[f]

\* Some records are returned and some are not, with an undeclared field selected.
C3_Witness ==
  /\ "e" \in DOMAIN state /\ IsSet(Get(state, "a"))
  /\ Len(getFilteredData(state)) > 0
  /\ Len(getFilteredData(state)) < Len(data)

OnlyAdds(F) ==
  /\ DependsOn(F, lastCall.field)
  /\ ~IsSet(Get(before, lastCall.field))
  /\ \A Q \in DeclaredFields :
       (DependsOn(F, Q) /\ Q # lastCall.field) => Get(state, Q) = Get(before, Q)

ScenarioState ==
  LET fresh == FreshEngine(initializeSelections(<< >>, dependencies), << >>)
  IN select(select(fresh, "category", "Electronics"), "subcategory", "Laptops").state

\* C7: on the product chain, select(category, Sports) after
\* select(category, Electronics) and select(subcategory, Laptops) unsets
\* subcategory, brand and name and emits three reset notifications before the
\* final Sports notification.
C7_ThreeResets ==
  (/\ Selected /\ lastCall.field = "category" /\ lastCall.value = "Sports"
   /\ data = comprehensiveProducts /\ before = ScenarioState) =>
    /\ \A D \in {"subcategory", "brand", "name"} : Get(state, D) = NULL
    /\ Cardinality(ResetEvents) = 3
    /\ emitted[Len(emitted)].field = "category"
    /\ emitted[Len(emitted)].value = "Sports"

\* C8: reset() returns a view whose filteredData is the whole dataset and
\* whose options for every declared field are the distinct non-null values
\* of that field in the dataset.
C8_ResetRestoresAll ==
  (lastCall.op = "reset" /\ ~lastCall.threw) =>
    /\ returned.filteredData = data
    /\ \A F \in DeclaredFields :
         /\ ElementsOf(returned.availableOptions[F]) = ValuesOf(data, F)
         /\ Len(returned.availableOptions[F]) = Cardinality(ValuesOf(data, F))

\* C9: the selection state, and currentSelections of the view a call
\* returned, has exactly one entry per declared field and no other entry.
C9_KeySetInvariant ==
  /\ DOMAIN state = DeclaredFields
  /\ (lastCall.op \in {"select", "reset"} /\ ~lastCall.threw) =>
        DOMAIN returned.currentSelections = DeclaredFields

\* The listeners with the throwing replaced by returning.
Quiet(ls) == [j \in DOMAIN ls |-> [ls[j] EXCEPT !.throws = FALSE]]

\* The last select or reset run again from the state before it, with no
\* listener throwing.
QuietRun ==
  LET eng == FreshEngine(before, Quiet(listeners))
  IN IF lastCall.op = "select" THEN select(eng, lastCall.field, lastCall.value)
     ELSE reset(eng)

\* C10: when a listener throws during a notification, every registered
\* listener still receives every notification of the call (same field, value
\* and view, in registration order), the call returns, and the selection
\* state and returned view are those of the call without the throw.
C10_ListenerFailureIsolated ==
  (lastCall.op \in {"select", "reset"}) =>
    /\ ~lastCall.threw
    /\ state = QuietRun.state
    /\ returned = QuietRun.ret
    /\ emitted = QuietRun.emitted
    /\ Len(delivered) = Len(emitted) * Len(listeners)
    /\ \A i \in DOMAIN emitted : \A j \in DOMAIN listeners :
         delivered[(i - 1) * Len(listeners) + j] =
           [listener |-> listeners[j], field |-> emitted[i].field,
            value |-> emitted[i].value, view |-> emitted[i].view]
    /\ errors = Cardinality({k \in DOMAIN delivered : delivered[k].listener.throws})

\* A select with two notifications where the first listener threw on both
\* and a listener registered after it received both.
C10_Witness ==
  /\ Selected /\ Len(emitted) >= 2 /\ Len(listeners) >= 2
  /\ listeners[1].throws /\ ~listeners[2].throws
  /\ errors >= 2
  /\ delivered[Len(delivered)].listener = listeners[2]

\* The last call was a reset that returned.
WasReset == lastCall.op = "reset" /\ ~lastCall.threw

\* C11: reset() unsets every declared field and emits exactly one
\* notification, ("reset", null, the post-reset view), delivered once to each
\* registration; no per-field reset notification is emitted.
C11_ResetSingleNotification ==
  WasReset =>
    /\ \A F \in DeclaredFields : Get(state, F) = NULL
    /\ returned = getCurrentState(state)
    /\ emitted = << [field |-> "reset", value |-> NULL, view |-> returned] >>
    /\ Len(delivered) = Len(listeners)
    /\ \A j \in DOMAIN listeners :
         delivered[j] = [listener |-> listeners[j], field |-> "reset",
                         value |-> NULL, view |-> returned]

\* A reset with a listener registered and at least two fields set before it.
C11_Witness ==
  /\ WasReset /\ Len(listeners) >= 1
  /\ Cardinality({F \in DeclaredFields : IsSet(Get(before, F))}) >= 2

\* The records that equal the selection at every set prerequisite of F.
NarrowedBy(st, F) ==
  {i \in DOMAIN data :
     \A P \in DOMAIN st : (DependsOn(F, P) /\ IsSet(st[P])) => Get(data[i], P) = st[P]}

C13_FilteredByDeclaredOnly ==
  getFilteredData(state) =
    SelectSeq(data, LAMBDA item :
      \A F \in DeclaredFields : IsSet(Get(state, F)) => Get(item, F) = Get(state, F))

\* The selection state select(F, v) is to leave: F at v, every descendant of
\* F unset, everything else as before.
AfterSelect(st, F, v) ==
  [k \in (DOMAIN st) \cup {F} |->
     IF k = F THEN v ELSE IF k \in Descendants(F) THEN NULL ELSE st[k]]

\* C14: select(F, v) made while canSelect(F) is false is carried out in full:
\* F is set to v, its dependents are reset and the final notification is emitted.
C14_PermissiveSelect ==
  (lastCall.op = "select" /\ ~canSelect(before, lastCall.field)) =>
    /\ ~lastCall.threw
    /\ state = AfterSelect(before, lastCall.field, lastCall.value)
    /\ Len(emitted) >= 1
    /\ emitted[Len(emitted)] =
         [field |-> lastCall.field, value |-> lastCall.value, view |-> getCurrentState(state)]

\* A declared field was selected while a prerequisite of it was unset, and a
\* dependent of it that was set has been reset.
C14_Witness ==
  /\ Selected /\ lastCall.field \in DeclaredFields /\ IsSet(lastCall.value)
  /\ ~canSelect(before, lastCall.field)
  /\ \E D \in Descendants(lastCall.field) : IsSet(Get(before, D)) /\ Get(state, D) = NULL

\* C16: select(F, v) when F already has the value v still resets every set
\* descendant of F, with a reset notification each, and emits the final
\* notification (F, v, view) to every listener.
C16_NoShortCircuit ==
  (lastCall.op = "select" /\ Get(before, lastCall.field) = lastCall.value) =>
    /\ \A D \in Descendants(lastCall.field) :
         /\ Get(state, D) = NULL
         /\ IsSet(Get(before, D)) =>
              \E i \in ResetEvents : emitted[i].field = D /\ emitted[i].value = NULL
    /\ Len(emitted) >= 1
    /\ emitted[Len(emitted)].field = lastCall.field
    /\ emitted[Len(emitted)].value = lastCall.value
    /\ Len(delivered) >= Len(listeners)
    /\ \A j \in DOMAIN listeners :
         LET note == delivered[Len(delivered) - Len(listeners) + j]
         IN note.listener = listeners[j] /\ note.field = lastCall.field
            /\ note.value = lastCall.value

\* A set value was selected again while a descendant was set, with a
\* listener registered.
C16_Witness ==
  /\ Selected /\ IsSet(lastCall.value) /\ Len(listeners) >= 1
  /\ Get(before, lastCall.field) = lastCall.value
  /\ \E D \in Descendants(lastCall.field) : IsSet(Get(before, D))

\* C20: within one select a field's reset notification comes before the reset
\* notifications of the fields that depend on it; on the product chain
\* select(category, ...) with all fields set emits subcategory, brand, name.
C20_ParentResetFirst ==
  Selected =>
    /\ \A i, j \in ResetEvents :
         emitted[j].field \in Descendants(emitted[i].field) => i < j
    /\ (/\ lastCall.field = "category"
        /\ \A F \in {"subcategory", "brand", "name"} : IsSet(Get(before, F))) =>
          [i \in ResetEvents |-> emitted[i].field] = <<"subcategory", "brand", "name">>

\* F is declared and every field in its dependsOn has a non-null selection.
Selectable(st, F) ==
  /\ F \in DeclaredFields
  /\ \A P \in DeclaredFields \cup Properties : DependsOn(F, P) => IsSet(Get(st, P))

\* C15: canSelect(F) returns true exactly when F is declared and every field
\* in its dependsOn has a non-null selection (false for an undeclared
\* field), changes no selection and emits no notification.
C15_CanSelect ==
  (lastCall.op = "canSelect") =>
    /\ ~lastCall.threw
    /\ returned = Selectable(before, lastCall.field)
    /\ state = before
    /\ emitted = << >> /\ delivered = << >>

\* canSelect answered false for a declared field with one prerequisite set
\* and another unset, with a listener registered.
C15_Witness ==
  /\ lastCall.op = "canSelect" /\ lastCall.field \in DeclaredFields
  /\ returned = FALSE /\ Len(listeners) >= 1
  /\ \E P \in DeclaredFields : DependsOn(lastCall.field, P) /\ IsSet(Get(state, P))

Remaining ==
  LET open == SelectSeq(handles, LAMBDA h : h.calls = 0)
  IN [i \in DOMAIN open |-> open[i].listener]

\* C17: while no unsubscribe function has been called more than once, each
\* one has removed exactly the registration its onChange call created: the
\* listener list is the registrations not unsubscribed, in registration
\* order, so a listener registered k times with j of its functions called is
\* invoked k - j times per notification and the others are unaffected.
C17_OwnRegistrationRemoved ==
  (\A h \in DOMAIN handles : handles[h].calls <= 1) =>
    /\ listeners = Remaining
    /\ lastCall.op = "reset" =>
         \A l \in Observers :
           Cardinality({k \in DOMAIN delivered : delivered[k].listener = l}) =
             Cardinality({h \in DOMAIN handles :
                            handles[h].listener = l /\ handles[h].calls = 0})

\* Delivery k went to a listener whose body reacts to it by calling select.
Triggered(k) == delivered[k].listener.reacts.on = delivered[k].field

\* The first delivery after k made at the call depth of k or above it
\* (one past the end when there is none).
NestedEnd(k) ==
  LET later == {m \in DOMAIN delivered : m > k /\ nesting[m] <= nesting[k]}
  IN IF later = {} THEN Len(delivered) + 1
     ELSE CHOOSE m \in later : \A n \in later : m <= n

\* C18: when a listener calls select while it is notified, the nested select
\* runs at once and to its end: its deliveries follow the triggering delivery
\* directly and finish with its final notification to every listener, before
\* the outer call delivers anything more; the outer select still delivers its
\* own final notification to every listener.
C18_NestedSelectRunsInside ==
  /\ \A k \in DOMAIN delivered :
       Triggered(k) =>
         LET r == delivered[k].listener.reacts
             m == NestedEnd(k)
         IN /\ m - 1 >= k + Len(listeners)
            /\ nesting[k + 1] = nesting[k] + 1
            /\ \A j \in DOMAIN listeners :
                 LET n == m - 1 - Len(listeners) + j
                 IN /\ nesting[n] = nesting[k] + 1
                    /\ delivered[n].listener = listeners[j]
                    /\ delivered[n].field = r.field
                    /\ delivered[n].value = r.value
                    /\ Get(delivered[n].view.currentSelections, r.field) = r.value
  /\ Selected =>
       LET final == SelectSeq([k \in DOMAIN delivered |->
                                 [note |-> delivered[k], depth |-> nesting[k]]],
                              LAMBDA x : /\ x.depth = 0
                                         /\ x.note.field = lastCall.field
                                         /\ x.note.value = lastCall.value
                                         /\ x.note.view = returned)
       IN [j \in DOMAIN final |-> final[j].note.listener] = listeners

\* A passive listener registered after a reacting one received the nested
\* select's final notification before the notification that triggered it.
C18_Witness ==
  /\ Selected /\ Len(listeners) = 2
  /\ listeners[1].reacts.on = lastCall.field /\ listeners[2].reacts.on = ""
  /\ \E k, n \in DOMAIN delivered :
       /\ k < n /\ nesting[k] = 1 /\ nesting[n] = 0
       /\ delivered[k].listener = listeners[2] /\ delivered[n].listener = listeners[2]
       /\ delivered[n].field = lastCall.field

\* The prerequisites of F: the fields its declaration lists in dependsOn.
Prerequisites(F) == {P \in DeclaredFields \cup Properties : DependsOn(F, P)}

\* C21: in the initial state and right after reset(), the options of a field
\* without prerequisites are all its values and the options of a field with
\* an unset prerequisite are empty (documented: category 3, subcategory 0,
\* brand 0, name 0).
C21_OptionsEmptyUntilPrerequisitesSet ==
  (lastCall.op \in {"new", "reset"} /\ ~lastCall.threw) =>
    \A F \in DeclaredFields :
      LET options == getAllOptions(state)[F]
      IN /\ Prerequisites(F) = {} => ElementsOf(options) = ValuesOf(data, F)
         /\ (\E P \in Prerequisites(F) : ~IsSet(Get(state, P))) => options = << >>

\* The selection state of scenario 1 before its third call: a fresh engine
\* after select(category, Electronics) and select(subcategory, Smartphones).
Scenario1State ==
  LET fresh == FreshEngine(initializeSelections(<< >>, dependencies), << >>)
  IN select(select(fresh, "category", "Electronics"), "subcategory", "Smartphones").state

\* The last call was select(brand, Apple), third call of scenario 1.
Scenario1Done ==
  /\ Selected /\ lastCall.field = "brand" /\ lastCall.value = "Apple"
  /\ data = comprehensiveProducts /\ before = Scenario1State

\* C22: on the comprehensive fixture, select(category, Electronics),
\* select(subcategory, Smartphones), select(brand, Apple) leave
\* getFilteredData() equal to the two Apple smartphone records and
\* getOptions(name) equal to their names in lexicographic order.
C22_AppleSmartphones ==
  Scenario1Done =>
    /\ getFilteredData(state) = << comprehensiveProducts[1], comprehensiveProducts[2] >>
    /\ returned.filteredData = getFilteredData(state)
    /\ getOptions(state, "name") = << "iPhone 13", "iPhone 14" >>
    /\ returned.availableOptions["name"] = << "iPhone 13", "iPhone 14" >>

C22_Witness == Scenario1Done

\* C24: when the selection states before and after a call agree on every
\* field in dependsOn(F), getOptions(F) and availableOptions[F] are the same
\* for both, whatever happened to F's own selection and to other fields.
C24_OptionsDependOnPrerequisitesOnly ==
  \A F \in DeclaredFields :
    (\A P \in Prerequisites(F) : Get(state, P) = Get(before, P)) =>
      /\ getOptions(state, F) = getOptions(before, F)
      /\ getCurrentState(state).availableOptions[F] =
           getCurrentState(before).availableOptions[F]

\* A field with a set prerequisite got its own selection changed, and the
\* selection state changed also in a field that is not declared.
C24_Witness ==
  /\ Selected /\ lastCall.field = "d" /\ IsSet(lastCall.value)
  /\ Get(before, "d") = NULL /\ IsSet(Get(state, "b"))
  /\ "e" \in DOMAIN state

\* C26 as stated: every notification payload delivered during select(X, v)
\* has X at v and every field transitively depending on X unset.
C26_Original ==
  Selected =>
    \A i \in DOMAIN emitted :
      /\ Get(emitted[i].view.currentSelections, lastCall.field) = lastCall.value
      /\ \A D \in Descendants(lastCall.field) :
           Get(emitted[i].view.currentSelections, D) = NULL

\* C26 (amended): every notification payload of select(X, v) has X at v; the
\* payload of the reset notification for D has D and the fields depending on D
\* unset, and the payload of the final notification has every field
\* depending on X unset. Dependents of X the cascade has not reached yet
\* may still be set in an earlier payload.
C26_PayloadsFollowTheCascade ==
  Selected =>
    /\ \A i \in DOMAIN emitted :
         Get(emitted[i].view.currentSelections, lastCall.field) = lastCall.value
    /\ \A i \in ResetEvents :
         \A D \in {emitted[i].field} \cup Descendants(emitted[i].field) :
           Get(emitted[i].view.currentSelections, D) = NULL
    /\ \A D \in Descendants(lastCall.field) :
         Get(emitted[Len(emitted)].view.currentSelections, D) = NULL

\* The payload of a reset notification showed another dependent of X still
\* set, and a listener received it.
C26_Witness ==
  /\ Selected /\ Len(listeners) >= 1
  /\ \E i \in ResetEvents : \E D \in Descendants(lastCall.field) :
       IsSet(Get(emitted[i].view.currentSelections, D))

\* The declarations as the caller passed them to the constructor.
Declared == (CHOOSE c \in Constructions : c.data = data).dependencies

\* C25: getSelectionSequence() returns every declared field exactly once,
\* by ascending dependsOn size, declarations of equal size in their original
\* relative order, and returns this in every reachable state.
C25_SelectionSequenceStable ==
  LET sequence == getSelectionSequence
      position(F) == CHOOSE i \in DOMAIN Declared : Declared[i].field = F
      size(F) == Len(Declared[position(F)].dependsOn)
  IN /\ Len(sequence) = Len(Declared)
     /\ \A i \in DOMAIN Declared :
          Cardinality({j \in DOMAIN sequence : sequence[j] = Declared[i].field}) = 1
     /\ \A i, j \in DOMAIN sequence :
          i < j => \/ size(sequence[i]) < size(sequence[j])
                   \/ /\ size(sequence[i]) = size(sequence[j])
                      /\ position(sequence[i]) < position(sequence[j])
     /\ lastCall.op = "getSelectionSequence" => returned = sequence

\* getSelectionSequence() was called on the construction declared out of
\* order (d, b, a, c), with selections made.
C25_Witness ==
  /\ lastCall.op = "getSelectionSequence"
  /\ Declared = diamondDependencies
  /\ returned = << "a", "b", "c", "d" >>
  /\ IsSet(Get(state, "b"))

\* The properties of the generated datasets whose values are numbers.
NumericFields == {"size"}

\* The number a decimal digit string denotes.
RECURSIVE DigitsValue(_)
DigitsValue(units) ==
  IF units = << >> THEN 0
  ELSE 10 * DigitsValue(SubSeq(units, 1, Len(units) - 1)) + (units[Len(units)] - 48)

NumberOf(value) == DigitsValue(CodeUnits(value))

\* getOptions(field) was called and returned at least two values.
SortedCall == lastCall.op = "getOptions" /\ Len(returned) >= 2

\* C23: getOptions returns its values in the natural order of their type:
\* strings lexicographically, numbers ascending by magnitude, also numbers
\* of several digits.
C23_NaturalOrder ==
  SortedCall =>
    \A i, j \in DOMAIN returned :
      i < j => IF lastCall.field \in NumericFields
               THEN NumberOf(returned[i]) < NumberOf(returned[j])
               ELSE StrLess(returned[i], returned[j])

\* The string half of C23 alone, which the code satisfies.
C23_StringsInOrder ==
  (SortedCall /\ lastCall.field \notin NumericFields) =>
    \A i, j \in DOMAIN returned : i < j => StrLess(returned[i], returned[j])

\* A field reached by the cascade of X lies on a dependency cycle.
CycleReachable(X) == \E D \in Descendants(X) : D \in Descendants(D)

\* C27: select(X, v) returns after finitely many resets and notifications
\* if and only if no field reachable from X through the dependents relation
\* lies on a dependency cycle; reset always returns.
C27_TerminatesIffNoCycle ==
  /\ lastCall.op = "select" =>
       /\ lastCall.threw <=> CycleReachable(lastCall.field)
       /\ ~lastCall.threw =>
            Len(emitted) <= Cardinality(Descendants(lastCall.field)) + 1
  /\ lastCall.op = "reset" => ~lastCall.threw /\ Len(emitted) = 1

\* select(x, a1) on the cyclic declarations: x is not on the cycle, its
\* dependent p is, and the recursion ran until the stack was full; a
\* listener was registered and got nothing.
C27_Witness ==
  /\ lastCall.op = "select" /\ lastCall.field = "x" /\ lastCall.threw
  /\ dependencies = sortDependencies(cyclicDependencies)
  /\ Len(listeners) >= 1 /\ delivered = << >>

\* The view of delivery k is what getCurrentState() returned when the
\* listener was entered.
Fresh(k) == delivered[k].view = getCurrentState(atDelivery[k])

\* An earlier delivery of the notification of delivery k went to a listener
\* that called select.
Disturbed(k) ==
  \E m \in DOMAIN delivered :
    /\ m < k /\ Triggered(m) /\ nesting[m] = nesting[k]
    /\ delivered[m].field = delivered[k].field
    /\ delivered[m].value = delivered[k].value
    /\ delivered[m].view = delivered[k].view

\* C28 as stated: every delivery carries the view getCurrentState() returns
\* at the moment of delivery, also after a listener that called select.
C28_Original == \A k \in DOMAIN delivered : Fresh(k)

\* C28 (amended): a delivery carries the view getCurrentState() returns at
\* the moment of delivery unless an earlier listener of the same notification
\* called select; listeners after that one get the view computed before.
C28_FreshUntilMutation ==
  \A k \in DOMAIN delivered : ~Disturbed(k) => Fresh(k)

\* A listener that called select got a fresh view, and the listener after
\* it got the same view, which was stale by then.
C28_Witness ==
  \E m, k \in DOMAIN delivered :
    /\ m < k /\ Triggered(m) /\ Fresh(m)
    /\ Disturbed(k) /\ ~Fresh(k)
    /\ delivered[k].view = delivered[m].view

\* How many of the deliveries ds went to listener l.
DeliveriesTo(ds, l) == Cardinality({k \in DOMAIN ds : ds[k].listener = l})

\* How many times l occurs in the listener list ls.
Occurrences(ls, l) == Cardinality({j \in DOMAIN ls : ls[j] = l})

\* C29: when a listener calls an unsubscribe function while it is notified,
\* every other listener that was registered when the notification started
\* and was not unsubscribed itself still receives that notification once
\* per registration.
C29_NoLostNotification ==
  [][lastCall'.op = "reset" =>
       \A l \in DroppingObservers :
         (/\ l.drops = 0
          /\ Occurrences(listeners, l) > 0
          /\ Occurrences(listeners', l) = Occurrences(listeners, l)) =>
           DeliveriesTo(delivered', l) = Occurrences(listeners, l)]_vars

\* C30: calling the same unsubscribe function a second or later time removes
\* no registration, also when the same listener is still registered through
\* another onChange call.
C30_UnsubscribeIdempotent ==
  [][(\E h \in DOMAIN handles :
        handles[h].calls > 0 /\ handles'[h].calls = handles[h].calls + 1) =>
       listeners' = listeners]_vars

\* C31: on the product fixture, in every state reached by reset() and by
\* select(F, v) calls made only when canSelect(F) holds and v is one of
\* getOptions(F), getFilteredData() is non-empty and every set selection is
\* one of the options of its field.
C31_GuardedViewNonEmpty ==
  /\ getFilteredData(state) # << >>
  /\ \A F \in DeclaredFields :
       IsSet(Get(state, F)) => includes(getOptions(state, F), Get(state, F))
  /\ lastCall.op \in {"select", "reset"} => returned.filteredData # << >>

\* A guarded select(category, v) replaced the category of a complete
\* selection and its cascade cleared the three fields below.
C31_Witness ==
  /\ Selected /\ lastCall.field = "category"
  /\ \A F \in DeclaredFields : IsSet(Get(before, F))
  /\ Get(before, "category") # Get(state, "category")
  /\ Len(getFilteredData(state)) > 1

\* The deliveries of reset notifications of the last select.
ResetDeliveries ==
  {k \in DOMAIN delivered :
     \E i \in ResetEvents :
       /\ emitted[i].field = delivered[k].field
       /\ emitted[i].value = delivered[k].value
       /\ emitted[i].view = delivered[k].view}

\* C32: every reset notification (D, null, view) delivered during a select
\* shows D and every field depending on D, directly or transitively, unset:
\* the cascade below D is over when the notification for D is emitted, and
\* no reset notification for a field below D follows it.
C32_ResetPayloadBelowCleared ==
  Selected =>
    /\ \A k \in ResetDeliveries :
         /\ delivered[k].value = NULL
         /\ \A D \in {delivered[k].field} \cup Descendants(delivered[k].field) :
              Get(delivered[k].view.currentSelections, D) = NULL
    /\ \A i, j \in ResetEvents :
         i < j => emitted[j].field \notin Descendants(emitted[i].field)

\* A listener received the reset notification for b, which had the set
\* field d below it, after the one for d.
C32_Witness ==
  /\ Selected /\ IsSet(Get(before, "d"))
  /\ \E k, m \in ResetDeliveries :
       k < m /\ delivered[k].field = "d" /\ delivered[m].field = "b"

Position(field) ==
  IF \E i \in DOMAIN DEPENDENCY_FIELDS : DEPENDENCY_FIELDS[i] = field
  THEN CHOOSE i \in DOMAIN DEPENDENCY_FIELDS : DEPENDENCY_FIELDS[i] = field
  ELSE 0

\* The entry is one the reset removes: of this id, for a dependency field
\* strictly after the changed dependency field.
Removed(entry) ==
  /\ Position(util.changedField) > 0
  /\ entry.primaryKey = util.id
  /\ Position(entry.property) > Position(util.changedField)

\* C34: resetDependentFields(id, changedField, dataArray, dependencyFields)
\* removes exactly id's entries for dependency fields strictly after
\* changedField and keeps every other entry in the original order; with a
\* changedField that is no dependency field it returns the array unchanged;
\* applied to its own result it changes nothing.
C34_ResetRemovesLaterEntries ==
  util.op = "resetDependentFields" =>
    /\ util.result = SelectSeq(util.dataArray, LAMBDA entry : ~Removed(entry))
    /\ Position(util.changedField) = 0 => util.result = util.dataArray
    /\ resetDependentEntries(util.id, util.changedField, util.result,
                             DEPENDENCY_FIELDS) = util.result

\* A reset removed an entry and kept one of the same id, for a property that
\* is no dependency field or for the changed field itself.
C34_Witness ==
  /\ util.op = "resetDependentFields"
  /\ Len(util.result) < Len(util.dataArray)
  /\ \E i \in DOMAIN util.result : util.result[i].primaryKey = util.id
  /\ \E i \in DOMAIN util.result : util.result[i].primaryKey # util.id

\* id's entries for one dependency field all carry the same valueLabel: its
\* selections are well defined.
OneSelectionEach ==
  \A i \in DOMAIN DEPENDENCY_FIELDS :
    Cardinality({util.dataArray[j].valueLabel :
                   j \in entriesOf(util.dataArray, util.id, DEPENDENCY_FIELDS[i])}) <= 1

\* The source records matching id's selections for the dependency fields
\* at or before the changed field; an entry with an empty valueLabel selects
\* nothing.
MatchingRecords ==
  SelectSeq(productData, LAMBDA record :
    \A i \in DOMAIN util.dataArray :
      LET entry == util.dataArray[i]
      IN (/\ entry.primaryKey = util.id
          /\ entry.valueLabel # ""
          /\ Position(entry.property) > 0
          /\ Position(entry.property) <= Position(util.changedField))
         => record[entry.property] = entry.valueLabel)

\* C35: filterDataWithDependencies(id, changedField, ...) for a dependency
\* field with an entry (id, changedField) gives, for each dependency field,
\* the distinct values of the source records matching id's selections at
\* the positions up to changedField, ignoring deeper selections; without an
\* entry (id, changedField) every dependency field maps to the empty list.
C35_FilterUpToChangedField ==
  util.op = "filterDataWithDependencies" =>
    /\ (/\ Position(util.changedField) > 0
        /\ entriesOf(util.dataArray, util.id, util.changedField) # {}
        /\ OneSelectionEach) =>
         \A i \in DOMAIN DEPENDENCY_FIELDS :
           util.result[DEPENDENCY_FIELDS[i]] =
             Distinct(MapField(MatchingRecords, DEPENDENCY_FIELDS[i]))
    /\ entriesOf(util.dataArray, util.id, util.changedField) = {} =>
         \A i \in DOMAIN DEPENDENCY_FIELDS : util.result[DEPENDENCY_FIELDS[i]] = << >>

\* The changed field was category, id also had a subcategory selected, and
\* the result lists the subcategories of the whole category.
C35_Witness ==
  /\ util.op = "filterDataWithDependencies" /\ util.changedField = "category"
  /\ OneSelectionEach
  /\ entriesOf(util.dataArray, util.id, "subcategory") # {}
  /\ Len(util.result["subcategory"]) = 3

\* The set of dependency-field entries of a dataArray.
DependencyEntries(dataArray) ==
  {dataArray[i] : i \in {j \in DOMAIN dataArray :
                           \E k \in DOMAIN dependency_fields :
                             dataArray[j].property = dependency_fields[k]}}

\* C36: across successive renders handleDependencyFieldsChange is invoked
\* exactly when the set of dependency-field entries of props.dataArray
\* differs from that of the previous render, a changed valueLabel of an
\* existing (primaryKey, property) entry included; it is not invoked on the
\* initial mount.
C36_InvokedIffEntriesDiffer ==
  tracker.mounted =>
    IF tracker.rendered = << >> THEN ~tracker.invoked
    ELSE tracker.invoked <=>
           DependencyEntries(tracker.dataArray) # DependencyEntries(tracker.rendered[1])

\* The failure is one the client retries: no response, a status of 500 or
\* more, or the code ECONNABORTED or ENOTFOUND.
Retryable(failure) ==
  \/ failure.response = << >>
  \/ failure.response[1].status >= 500
  \/ failure.code \in {"ECONNABORTED", "ENOTFOUND"}

Unauthorized(failure) ==
  failure.response # << >> /\ failure.response[1].status = 401

\* What a request settles with when this is the outcome of its last attempt.
SettlesWith(outcome) ==
  IF outcome \in Responses THEN [kind |-> "fulfilled", value |-> outcome]
  ELSE IF Unauthorized(outcome)
  THEN [kind |-> "rejected", value |-> AuthenticationError]
  ELSE [kind |-> "rejected", value |-> outcome]

\* C37: a request is sent at most twice, whatever retries is configured to:
\* a first attempt that fails with a retryable error is sent again exactly
\* once after the delay and the request settles with the outcome of that
\* second attempt; a 401 is never retried and surfaces as the
\* authentication error; any other failure of the first attempt is rejected
\* at once.
C37_AtMostOneRetry ==
  /\ http.phase # "none" => http.attempts <= 2 /\ http.delays <= 1
  /\ http.phase = "delay" =>
       /\ http.attempts = 1
       /\ Retryable(http.outcomes[1]) /\ ~Unauthorized(http.outcomes[1])
  /\ http.phase = "settled" =>
       LET first == http.outcomes[1]
       IN IF first \notin Responses /\ ~Unauthorized(first) /\ Retryable(first)
          THEN /\ http.attempts = 2 /\ http.delays = 1
               /\ Len(http.outcomes) = 2
               /\ http.settled = << SettlesWith(http.outcomes[2]) >>
          ELSE /\ http.attempts = 1 /\ http.delays = 0
               /\ http.settled = << SettlesWith(first) >>

\* With retries configured to 3, a request failed twice with a retryable
\* error and was rejected after the second attempt.
C37_Witness ==
  /\ http.phase = "settled" /\ http.retries = 3
  /\ http.attempts = 2
  /\ Retryable(http.outcomes[2]) /\ ~Unauthorized(http.outcomes[2])
  /\ http.settled[1].kind = "rejected"

====
